---- MODULE Spec2Model ----
(***************************************************************************)
(* Model of position_size_simulation_simple.py: the trading-day loop of    *)
(* simulate_day, the strategy runner run_simulation, the drawdown          *)
(* computation of analyze_results and the scenario loop of                 *)
(* simulate_specific_scenarios; and of scripts/todo_guard.py.              *)
(*                                                                         *)
(* Numbers.  The program computes in binary floating point.  The model     *)
(* keeps the rounding of every addition and subtraction but with a         *)
(* mantissa of MantBits bits instead of 53, over integral dollar amounts:  *)
(* a value is an integer, and the result of an operation is rounded to the *)
(* nearest integer with at most MantBits significant bits, ties to even.   *)
(*                                                                         *)
(* Randomness.  random.random() returns a multiple of 1/UDen, and          *)
(* random.gauss(0, sigma) returns sigma * z for an integer z.  Under       *)
(* SpecDay every draw is a free choice; under Spec the draws are read from *)
(* a cyclic tape fixed in the initial state (an arbitrary deterministic    *)
(* generator), and rng is the position of the next draw.  SpecPoisson is   *)
(* one call of simulate_day on the tape for several arrival rates,         *)
(* SpecProbe is simulate_specific_scenarios and SpecTodo is todo_guard's   *)
(* main.                                                                   *)
(***************************************************************************)
EXTENDS Integers, Sequences, FiniteSets, TLC

(* ------------------------------ bounds -------------------------------- *)
MantBits == 8
MaxDays == 2
MaxPoisson == 7
TapeLen == 9
MaxRuns == 2

\* Lines of a scanned file.
MaxLines == 2

(* ------------------------- floating point ----------------------------- *)
Abs(x) == IF x < 0 THEN -x ELSE x

Max2(a, b) == IF a >= b THEN a ELSE b

Min2(a, b) == IF a <= b THEN a ELSE b

RECURSIVE Pow2(_)
Pow2(n) == IF n = 0 THEN 1 ELSE 2 * Pow2(n - 1)

\* The spacing of the representable values around magnitude m.
RECURSIVE Ulp(_)
Ulp(m) == IF m < Pow2(MantBits) THEN 1 ELSE 2 * Ulp(m \div 2)

\* Round to nearest representable value, ties to even.
FRound(x) ==
    LET m == Abs(x)
        u == Ulp(m)
        q == m \div u
        r == m % u
        k == IF 2 * r < u THEN q
             ELSE IF 2 * r > u THEN q + 1
             ELSE IF q % 2 = 0 THEN q ELSE q + 1
    IN  IF x < 0 THEN -(k * u) ELSE k * u

FAdd(a, b) == FRound(a + b)

FSub(a, b) == FRound(a - b)

FMul(a, b) == FRound(a * b)

(* --------------------------- configuration ---------------------------- *)
\* StrategyConfig: the three built-in strategies of run_simulation, in list order.
Strategies ==
    << [name |-> "Conservative (2.5%)", position_size_usd |-> 25,
        max_concurrent_positions |-> 6],
       [name |-> "Moderate (5%)", position_size_usd |-> 50,
        max_concurrent_positions |-> 10],
       [name |-> "Aggressive (10%)", position_size_usd |-> 100,
        max_concurrent_positions |-> 5] >>

\* Risk caps of simulate_day.
portfolio_daily_cap == 30

per_wallet_daily_cap == 20

max_total_exposure == 150

\* Reference position size of the edge model: scaled_pnl = pnl * (usd / 25.0).
base_position_size == 25

\* WalletSimulator.__init__ default bankroll.
default_bankroll == 1000

\* random.seed(42) in run_simulation.
run_seed == 42

\* Denominator of the values random.random() takes in the model: u / UDen in [0, 1).
UDen == 2

UVals == 0 .. (UDen - 1)

\* Standard-normal values random.gauss takes in the model.
ZVals == {-5, -1, 0, 2, 3, 5, 6}

None == [none |-> TRUE]

VARIABLES
    pc,                 \* control point
    tape,               \* the generator: the values of successive draws
    rng,                \* generator state: position of the next draw
    days,               \* run_simulation's parameter
    runs,               \* number of run_simulation calls started
    si,                 \* index of the strategy in run_simulation's loop
    day,                \* run_simulation's loop variable (0-based)
    wallet,             \* the WalletSimulator passed to simulate_day
    strategy,           \* the StrategyConfig passed to simulate_day
    sim_day,            \* simulate_day's day parameter
    num_trades,         \* simulate_day locals
    trade_num,
    trades_today,
    wins,
    losses,
    max_concurrent_hit,
    daily_loss_hit,
    current_exposure,
    result,             \* the DailyResult simulate_day returned
    all_results,        \* run_simulation's list
    prev_results,       \* what the previous run_simulation call returned
    summary,            \* analyze_results: max_drawdown by strategy name
    avg_trades_per_day, \* simulate_day's parameter
    poisson_k,          \* what poisson_random returned to simulate_day
    trade,              \* pnl, is_win and scaled_pnl of the last trade
    wallet_at_entry,    \* history: the wallet as simulate_day received it
    scenario_idx,       \* simulate_specific_scenarios: its loops and locals
    name_idx,
    probe_daily_pnl,
    trades_made,
    probe_trade,
    fs,                 \* todo_guard: the files below the working directory
    roots,              \* main's ns.paths (empty: the default roots)
    cmd,                \* main's sub-command
    scan,               \* the ScanResult
    exit_code           \* what main returned

dayLocals == << num_trades, trade_num, trades_today, wins, losses,
                max_concurrent_hit, daily_loss_hit, current_exposure >>

runVars == << days, runs, si, day, all_results, prev_results, summary >>

callVars == << avg_trades_per_day, poisson_k, trade, wallet_at_entry >>

probeVars == << scenario_idx, name_idx, probe_daily_pnl, trades_made,
                probe_trade >>

todoVars == << fs, roots, cmd, scan, exit_code >>

otherVars == << probeVars, todoVars >>

vars == << pc, tape, rng, days, runs, si, day, wallet, strategy, sim_day,
           num_trades, trade_num, trades_today, wins, losses,
           max_concurrent_hit, daily_loss_hit, current_exposure, result,
           all_results, prev_results, summary, callVars, otherVars >>

(* ------------------------------ wallet -------------------------------- *)
\* WalletSimulator.__init__
WalletSimulator(bankroll) ==
    [initial_bankroll |-> bankroll, bankroll |-> bankroll,
     daily_pnl |-> 0, total_pnl |-> 0, daily_losses |-> 0]

\* A reset that clears the running total as well.
reset_daily_clears_total(w) ==
    [w EXCEPT !.daily_pnl = 0, !.daily_losses = 0, !.total_pnl = 0]

\* A reset that clears daily_pnl and keeps the realized losses of the day
\* before.
reset_daily_keeps_losses(w) == [w EXCEPT !.daily_pnl = 0]

\* A reset that clears daily_losses and keeps the daily_pnl of the day before.
reset_daily_keeps_pnl(w) == [w EXCEPT !.daily_losses = 0]

\* WalletSimulator.reset_daily
reset_daily(w) == [w EXCEPT !.daily_pnl = 0, !.daily_losses = 0]

\* WalletSimulator.simulate_wallet_edge with its default arguments, on the
\* three draws it makes: u = random.random() (in 1/UDen), zj the jitter of
\* the win rate (gauss(0, 0.05) = zj / 20), zp the payoff noise.
\* u/UDen < 0.55 + zj/20  <=>  20 * u < UDen * (11 + zj).
simulate_wallet_edge(u, zj, zp) ==
    IF 20 * u < UDen * (11 + zj)
    THEN [pnl |-> Max2(FAdd(45, 10 * zp), 0), is_win |-> TRUE]
    ELSE [pnl |-> Min2(FAdd(-25, 5 * zp), 0), is_win |-> FALSE]

(* --------------------------- simulate_day ----------------------------- *)
\* The trade's result taken unscaled, whatever the position size.
scaled_pnl_unscaled(pnl, s) == pnl

\* scaled_pnl = pnl * (strategy.position_size_usd / 25.0); the quotient is
\* exact (1.0, 2.0, 4.0) for the built-in position sizes.
scaled_pnl(pnl, s) == FMul(pnl, s.position_size_usd \div base_position_size)

\* The portfolio check made against the per-wallet cap.
DailyLossCapReached_wrong_cap(w) == w.daily_losses <= -per_wallet_daily_cap

\* Check 1 of the loop: wallet.daily_losses <= -portfolio_daily_cap
DailyLossCapReached(w) == w.daily_losses <= -portfolio_daily_cap

\* The per-wallet check with > in place of >=.
PerWalletCapReached_strict(w) == Abs(w.daily_losses) > per_wallet_daily_cap

\* Check 2 of the loop: abs(wallet.daily_losses) >= per_wallet_daily_cap
PerWalletCapReached(w) == Abs(w.daily_losses) >= per_wallet_daily_cap

\* The exposure check with >= in place of >.
ExposureCapReached_inclusive(exposure, s) ==
    FAdd(exposure, s.position_size_usd) >= max_total_exposure

\* The exposure check made on the number of open positions against
\* max_concurrent_positions.
ExposureCapReached_by_positions(exposure, s) ==
    exposure \div s.position_size_usd >= s.max_concurrent_positions

\* Check 3 of the loop: current_exposure + position_size_usd > max_total_exposure
ExposureCapReached(exposure, s) ==
    FAdd(exposure, s.position_size_usd) > max_total_exposure

\* The wallet after a trade whose result goes to daily_losses whatever its
\* sign.
ApplyTrade_all_to_losses(w, sp) ==
    [w EXCEPT !.daily_pnl = FAdd(@, sp),
              !.total_pnl = FAdd(@, sp),
              !.daily_losses = FAdd(@, sp)]

\* The wallet after a trade with scaled result sp (lines 126-130).
ApplyTrade(w, sp) ==
    [w EXCEPT !.daily_pnl = FAdd(@, sp),
              !.total_pnl = FAdd(@, sp),
              !.daily_losses = IF sp < 0 THEN FAdd(@, sp) ELSE @]

\* A zero result counted as neither a win nor a loss.
TradeCounters_zero_uncounted(sp, nwins, nlosses) ==
    IF sp < 0 THEN [wins |-> nwins, losses |-> nlosses + 1]
    ELSE IF sp > 0 THEN [wins |-> nwins + 1, losses |-> nlosses]
    ELSE [wins |-> nwins, losses |-> nlosses]

\* Lines 129-133: a negative result is a loss, anything else a win.
TradeCounters(sp, nwins, nlosses) ==
    IF sp < 0 THEN [wins |-> nwins, losses |-> nlosses + 1]
    ELSE [wins |-> nwins + 1, losses |-> nlosses]

\* The record with hit_rate = wins / trades_today, the denominator unguarded.
DailyResult_unguarded(w, s, d, trades, nwins, nlosses, conc_hit, loss_hit) ==
    [day |-> d,
     strategy |-> s.name,
     trades_taken |-> trades,
     wins |-> nwins,
     losses |-> nlosses,
     daily_pnl |-> w.daily_pnl,
     cumulative_pnl |-> w.total_pnl,
     hit_rate |-> [num |-> nwins, den |-> trades],
     max_concurrent_hit |-> conc_hit,
     daily_loss_hit |-> loss_hit,
     bankroll |-> FAdd(w.initial_bankroll, w.total_pnl)]

\* The record simulate_day returns; hit_rate = wins / max(trades_today, 1)
\* is kept as the fraction num / den.
DailyResult(w, s, d, trades, nwins, nlosses, conc_hit, loss_hit) ==
    [day |-> d,
     strategy |-> s.name,
     trades_taken |-> trades,
     wins |-> nwins,
     losses |-> nlosses,
     daily_pnl |-> w.daily_pnl,
     cumulative_pnl |-> w.total_pnl,
     hit_rate |-> [num |-> nwins, den |-> Max2(trades, 1)],
     max_concurrent_hit |-> conc_hit,
     daily_loss_hit |-> loss_hit,
     bankroll |-> FAdd(w.initial_bankroll, w.total_pnl)]

\* Entry of simulate_day: reset_daily, the locals, and
\* num_trades = max(1, poisson_random(avg_trades_per_day)), k being the value
\* poisson_random returned.
SimulateDayEnter(k) ==
    /\ pc = "simulate_day"
    /\ wallet' = reset_daily(wallet)
    /\ trades_today' = 0
    /\ wins' = 0
    /\ losses' = 0
    /\ max_concurrent_hit' = FALSE
    /\ daily_loss_hit' = FALSE
    /\ num_trades' = Max2(1, k)
    /\ current_exposure' = 0
    /\ trade_num' = 0
    /\ pc' = "loop"
    /\ UNCHANGED << tape, strategy, sim_day, result, runVars >>
    /\ poisson_k' = k
    /\ trade' = None
    /\ wallet_at_entry' = wallet
    /\ UNCHANGED << avg_trades_per_day, otherVars >>

\* The loss-cap stop with the exposure flag computed as well, before the break.
DailyLossStop_both_flags ==
    /\ pc = "loop"
    /\ trade_num < num_trades
    /\ DailyLossCapReached(wallet)
    /\ daily_loss_hit' = TRUE
    /\ max_concurrent_hit' = ExposureCapReached(current_exposure, strategy)
    /\ pc' = "return"
    /\ UNCHANGED << tape, rng, wallet, strategy, sim_day, result, runVars,
                    num_trades, trade_num, trades_today, wins, losses,
                    current_exposure >>
    /\ UNCHANGED << callVars, otherVars >>

\* for trade_num in range(num_trades): the portfolio daily loss cap breaks.
DailyLossStop ==
    /\ pc = "loop"
    /\ trade_num < num_trades
    /\ DailyLossCapReached(wallet)
    /\ daily_loss_hit' = TRUE
    /\ pc' = "return"
    /\ UNCHANGED << tape, rng, wallet, strategy, sim_day, result, runVars,
                    num_trades, trade_num, trades_today, wins, losses,
                    max_concurrent_hit, current_exposure >>
    /\ UNCHANGED << callVars, otherVars >>

\* The per-wallet break reporting itself through daily_loss_hit.
PerWalletStop_flagged ==
    /\ pc = "loop"
    /\ trade_num < num_trades
    /\ ~DailyLossCapReached(wallet)
    /\ PerWalletCapReached(wallet)
    /\ daily_loss_hit' = TRUE
    /\ pc' = "return"
    /\ UNCHANGED << tape, rng, wallet, strategy, sim_day, result, runVars,
                    num_trades, trade_num, trades_today, wins, losses,
                    max_concurrent_hit, current_exposure >>
    /\ UNCHANGED << callVars, otherVars >>

\* The per-wallet daily loss cap breaks, setting no flag.
PerWalletStop ==
    /\ pc = "loop"
    /\ trade_num < num_trades
    /\ ~DailyLossCapReached(wallet)
    /\ PerWalletCapReached(wallet)
    /\ pc' = "return"
    /\ UNCHANGED << tape, rng, wallet, strategy, sim_day, result, runVars,
                    dayLocals >>
    /\ UNCHANGED << callVars, otherVars >>

\* The exposure cap breaks.
ExposureStop ==
    /\ pc = "loop"
    /\ trade_num < num_trades
    /\ ~DailyLossCapReached(wallet)
    /\ ~PerWalletCapReached(wallet)
    /\ ExposureCapReached(current_exposure, strategy)
    /\ max_concurrent_hit' = TRUE
    /\ pc' = "return"
    /\ UNCHANGED << tape, rng, wallet, strategy, sim_day, result, runVars,
                    num_trades, trade_num, trades_today, wins, losses,
                    daily_loss_hit, current_exposure >>
    /\ UNCHANGED << callVars, otherVars >>

\* One trade: o is what simulate_wallet_edge returned (lines 119-136).
ExecuteTrade(o) ==
    /\ pc = "loop"
    /\ trade_num < num_trades
    /\ ~DailyLossCapReached(wallet)
    /\ ~PerWalletCapReached(wallet)
    /\ ~ExposureCapReached(current_exposure, strategy)
    /\ LET sp == scaled_pnl(o.pnl, strategy)
       IN  /\ trade' = [pnl |-> o.pnl, is_win |-> o.is_win, scaled_pnl |-> sp]
           /\ wallet' = ApplyTrade(wallet, sp)
           /\ wins' = TradeCounters(sp, wins, losses).wins
           /\ losses' = TradeCounters(sp, wins, losses).losses
    /\ trades_today' = trades_today + 1
    /\ current_exposure' = FAdd(current_exposure, strategy.position_size_usd)
    /\ trade_num' = trade_num + 1
    /\ UNCHANGED << pc, tape, strategy, sim_day, result, runVars, num_trades,
                    max_concurrent_hit, daily_loss_hit >>
    /\ UNCHANGED << avg_trades_per_day, poisson_k, wallet_at_entry, otherVars >>

\* range(num_trades) is exhausted.
LoopExhausted ==
    /\ pc = "loop"
    /\ trade_num = num_trades
    /\ pc' = "return"
    /\ UNCHANGED << tape, rng, wallet, strategy, sim_day, result, runVars,
                    dayLocals >>
    /\ UNCHANGED << callVars, otherVars >>

\* return DailyResult(...)
ReturnResult ==
    /\ pc = "return"
    /\ result' = DailyResult(wallet, strategy, sim_day, trades_today, wins,
                             losses, max_concurrent_hit, daily_loss_hit)
    /\ pc' = "returned"
    /\ UNCHANGED << tape, rng, wallet, strategy, sim_day, runVars, dayLocals >>
    /\ UNCHANGED << callVars, otherVars >>

(* ------------- one call of simulate_day, draws chosen freely ---------- *)
\* The daily counters and the total a wallet may hold when a day starts.
StaleDaily == { <<0, 0>>, <<-40, -40>>, <<20, -25>> }

StaleTotal == { 0, -40, 270 }

WalletsLeft ==
    { [initial_bankroll |-> default_bankroll, bankroll |-> default_bankroll,
       daily_pnl |-> d[1], daily_losses |-> d[2], total_pnl |-> t] :
      d \in StaleDaily, t \in StaleTotal }

InitDay ==
    /\ pc = "simulate_day"
    /\ tape = << >>
    /\ rng = 0
    /\ days = 1
    /\ runs = 1
    /\ si \in 1 .. Len(Strategies)
    /\ strategy = Strategies[si]
    /\ day = 0
    /\ sim_day = 1
    /\ wallet \in WalletsLeft
    /\ num_trades = 0
    /\ trade_num = 0
    /\ trades_today = 0
    /\ wins = 0
    /\ losses = 0
    /\ max_concurrent_hit = FALSE
    /\ daily_loss_hit = FALSE
    /\ current_exposure = 0
    /\ result = None
    /\ all_results = << >>
    /\ prev_results = << >>
    /\ summary = << >>
    /\ avg_trades_per_day = 8
    /\ poisson_k = 0
    /\ trade = None
    /\ wallet_at_entry = None
    /\ scenario_idx = 0
    /\ name_idx = 0
    /\ probe_daily_pnl = 0
    /\ trades_made = 0
    /\ probe_trade = 0
    /\ fs = << >>
    /\ roots = << >>
    /\ cmd = "check"
    /\ scan = None
    /\ exit_code = None

DayEnter == \E k \in 0 .. MaxPoisson : SimulateDayEnter(k) /\ rng' = rng

\* Everything simulate_wallet_edge can return on the modelled draws.
Outcomes ==
    { simulate_wallet_edge(u, zj, zp) : u \in UVals, zj \in ZVals, zp \in ZVals }

DayTrade == \E o \in Outcomes : ExecuteTrade(o) /\ rng' = rng

NextDay ==
    \/ DayEnter
    \/ DayTrade
    \/ DailyLossStop
    \/ PerWalletStop
    \/ ExposureStop
    \/ LoopExhausted
    \/ ReturnResult

SpecDay == InitDay /\ [][NextDay]_vars

(* ------------------------- the random stream -------------------------- *)
\* What a cell of the tape is as a value of random.random() (in 1/UDen) and
\* as a standard-normal value of random.gauss.
CellVals == {0, 1}

UOfCell(c) == c

ZOfCell(c) == IF c = 0 THEN -1 ELSE 1

NextPos(i) == (i % TapeLen) + 1

\* A seed call that leaves the generator where it is.
random_seed_ignored(s) == rng

\* random.seed(s): the generator state is a function of the seed alone.
random_seed(s) == (s % TapeLen) + 1

\* math.exp(-lambda_) as a fraction. e^-6 lies between 1/404 and 1/403,
\* e^-8 between 1/2981 and 1/2980, e^-1 between 32/87 and 7/19, and no product
\* of the modelled uniform values lies between the two ends; e^-0 is 1.0.
ExpNeg(lambda) ==
    CASE lambda = 0 -> [num |-> 1, den |-> 1]
      [] lambda = 1 -> [num |-> 32, den |-> 87]
      [] lambda = 6 -> [num |-> 1, den |-> 403]
      [] lambda = 8 -> [num |-> 1, den |-> 2981]

\* poisson_random's loop from state (k, p = pn/pd) with the next draw at i:
\* while p > L: k += 1; p *= random.random().  Returns k - 1 and the
\* generator state left behind.
RECURSIVE PoissonLoop(_, _, _, _, _, _)
PoissonLoop(L, t, i, k, pn, pd) ==
    IF pn * L.den > L.num * pd
    THEN PoissonLoop(L, t, NextPos(i), k + 1, pn * UOfCell(t[i]), pd * UDen)
    ELSE [value |-> k - 1, rng |-> i]

poisson_random(lambda, t, i) == PoissonLoop(ExpNeg(lambda), t, i, 0, 1, 1)

\* simulate_wallet_edge on the next three draws of the tape.
TapeEdge(t, i) ==
    simulate_wallet_edge(UOfCell(t[i]), ZOfCell(t[NextPos(i)]),
                         ZOfCell(t[NextPos(NextPos(i))]))

(* --------------------------- analyze_results -------------------------- *)
RECURSIVE SeqMax(_)
SeqMax(q) ==
    IF Len(q) = 1 THEN q[1] ELSE Max2(q[1], SeqMax(Tail(q)))

\* strategies[result.strategy]: the records of one strategy, in order.
StrategyResults(results, name) ==
    SelectSeq(results, LAMBDA r : r.strategy = name)

\* Lines 239-243: max_pnl = max(cumulative_pnls);
\* max_drawdown = max(max_pnl - pnl for pnl in cumulative_pnls).
max_drawdown(cumulative_pnls) ==
    LET max_pnl == SeqMax(cumulative_pnls)
        drawdowns == [i \in 1 .. Len(cumulative_pnls) |->
                         FSub(max_pnl, cumulative_pnls[i])]
    IN  SeqMax(drawdowns)

CumulativePnls(rs) == [i \in 1 .. Len(rs) |-> rs[i].cumulative_pnl]

\* sum(1 for r in strategy_results if r.daily_loss_hit)
days_loss_cap_hit(rs) ==
    Cardinality({ i \in 1 .. Len(rs) : rs[i].daily_loss_hit })

\* sum(1 for r in strategy_results if r.max_concurrent_hit)
days_concurrent_cap_hit(rs) ==
    Cardinality({ i \in 1 .. Len(rs) : rs[i].max_concurrent_hit })

\* The summary entry of one strategy (the statistics that need no division).
StrategySummary(rs) ==
    [final_bankroll |-> rs[Len(rs)].bankroll,
     total_pnl |-> FSub(rs[Len(rs)].bankroll, default_bankroll),
     max_drawdown |-> max_drawdown(CumulativePnls(rs)),
     days_loss_cap_hit |-> days_loss_cap_hit(rs),
     days_concurrent_cap_hit |-> days_concurrent_cap_hit(rs)]

analyze_results(results) ==
    LET names == { results[i].strategy : i \in 1 .. Len(results) }
    IN  [n \in names |-> StrategySummary(StrategyResults(results, n))]

(* ---------------------------- run_simulation -------------------------- *)
\* random.seed(42); all_results = []
RunStart ==
    /\ pc = "start"
    /\ rng' = random_seed(run_seed)
    /\ all_results' = << >>
    /\ si' = 1
    /\ pc' = "strategy"
    /\ UNCHANGED << tape, days, runs, day, wallet, strategy, sim_day, result,
                    prev_results, summary, dayLocals >>
    /\ UNCHANGED << callVars, otherVars >>

\* One wallet constructed before the loop and shared by the strategies.
NewWallet_shared ==
    /\ pc = "strategy"
    /\ si <= Len(Strategies)
    /\ strategy' = Strategies[si]
    /\ wallet' = IF si = 1 THEN WalletSimulator(default_bankroll) ELSE wallet
    /\ day' = 0
    /\ pc' = "day"
    /\ UNCHANGED << tape, rng, days, runs, si, sim_day, result, all_results,
                    prev_results, summary, dayLocals >>
    /\ UNCHANGED << callVars, otherVars >>

\* for strategy in strategies: wallet = WalletSimulator()
NewWallet ==
    /\ pc = "strategy"
    /\ si <= Len(Strategies)
    /\ strategy' = Strategies[si]
    /\ wallet' = WalletSimulator(default_bankroll)
    /\ day' = 0
    /\ pc' = "day"
    /\ UNCHANGED << tape, rng, days, runs, si, sim_day, result, all_results,
                    prev_results, summary, dayLocals >>
    /\ UNCHANGED << callVars, otherVars >>

\* for day in range(days): simulate_day(wallet, strategy, day + 1, 6.0)
CallSimulateDay ==
    /\ pc = "day"
    /\ day < days
    /\ sim_day' = day + 1
    /\ pc' = "simulate_day"
    /\ UNCHANGED << tape, rng, wallet, strategy, result, runVars, dayLocals >>
    /\ avg_trades_per_day' = 6
    /\ UNCHANGED << poisson_k, trade, wallet_at_entry, otherVars >>

\* all_results.append(result)
AppendResult ==
    /\ pc = "returned"
    /\ all_results' = Append(all_results, result)
    /\ day' = day + 1
    /\ pc' = "day"
    /\ UNCHANGED << tape, rng, days, runs, si, wallet, strategy, sim_day,
                    result, prev_results, summary, dayLocals >>
    /\ UNCHANGED << callVars, otherVars >>

\* range(days) is exhausted: the next strategy.
NextStrategy ==
    /\ pc = "day"
    /\ day = days
    /\ si' = si + 1
    /\ pc' = "strategy"
    /\ UNCHANGED << tape, rng, days, runs, day, wallet, strategy, sim_day,
                    result, all_results, prev_results, summary, dayLocals >>
    /\ UNCHANGED << callVars, otherVars >>

\* return all_results
RunReturn ==
    /\ pc = "strategy"
    /\ si > Len(Strategies)
    /\ pc' = "analyze"
    /\ UNCHANGED << tape, rng, wallet, strategy, sim_day, result, runVars,
                    dayLocals >>
    /\ UNCHANGED << callVars, otherVars >>

\* main: analyze_results(results)
AnalyzeResults ==
    /\ pc = "analyze"
    /\ summary' = analyze_results(all_results)
    /\ pc' = "done"
    /\ UNCHANGED << tape, rng, days, runs, si, day, wallet, strategy, sim_day,
                    result, all_results, prev_results, dayLocals >>
    /\ UNCHANGED << callVars, otherVars >>

\* run_simulation is called again with the same parameters, in the state the
\* previous call left.
RunAgain ==
    /\ pc = "done"
    /\ runs < MaxRuns
    /\ prev_results' = all_results
    /\ runs' = runs + 1
    /\ pc' = "start"
    /\ UNCHANGED << tape, rng, days, si, day, wallet, strategy, sim_day,
                    result, all_results, summary, dayLocals >>
    /\ UNCHANGED << callVars, otherVars >>

\* simulate_day's entry and trade, their draws read from the tape.
RunDayEnter ==
    LET p == poisson_random(avg_trades_per_day, tape, rng)
    IN  SimulateDayEnter(p.value) /\ rng' = p.rng

RunDayTrade ==
    /\ ExecuteTrade(TapeEdge(tape, rng))
    /\ rng' = NextPos(NextPos(NextPos(rng)))

Init ==
    /\ pc = "start"
    /\ tape \in [1 .. TapeLen -> CellVals]
    /\ rng \in 1 .. TapeLen
    /\ days \in 1 .. MaxDays
    /\ runs = 1
    /\ si = 1
    /\ strategy = None
    /\ day = 0
    /\ sim_day = 0
    /\ wallet = None
    /\ num_trades = 0
    /\ trade_num = 0
    /\ trades_today = 0
    /\ wins = 0
    /\ losses = 0
    /\ max_concurrent_hit = FALSE
    /\ daily_loss_hit = FALSE
    /\ current_exposure = 0
    /\ result = None
    /\ all_results = << >>
    /\ prev_results = << >>
    /\ summary = << >>
    /\ avg_trades_per_day = 8
    /\ poisson_k = 0
    /\ trade = None
    /\ wallet_at_entry = None
    /\ scenario_idx = 0
    /\ name_idx = 0
    /\ probe_daily_pnl = 0
    /\ trades_made = 0
    /\ probe_trade = 0
    /\ fs = << >>
    /\ roots = << >>
    /\ cmd = "check"
    /\ scan = None
    /\ exit_code = None

Next ==
    \/ RunStart
    \/ NewWallet
    \/ CallSimulateDay
    \/ RunDayEnter
    \/ RunDayTrade
    \/ DailyLossStop
    \/ PerWalletStop
    \/ ExposureStop
    \/ LoopExhausted
    \/ ReturnResult
    \/ AppendResult
    \/ NextStrategy
    \/ RunReturn
    \/ AnalyzeResults
    \/ RunAgain

Spec == Init /\ [][Next]_vars

(* ------- one call of simulate_day, its draws read from the stream ------ *)
\* Mean arrival rates simulate_day is called with: the default 8.0, the 6.0
\* run_simulation passes, and the smaller rates 1.0 and 0.0.
Lambdas == {0, 1, 6, 8}

\* The variables of simulate_specific_scenarios and of todo_guard while
\* those programs are not running.
ProbeIdle ==
    /\ scenario_idx = 0
    /\ name_idx = 0
    /\ probe_daily_pnl = 0
    /\ trades_made = 0
    /\ probe_trade = 0

TodoIdle ==
    /\ fs = << >>
    /\ roots = << >>
    /\ cmd = "check"
    /\ scan = None
    /\ exit_code = None

OthersIdle == ProbeIdle /\ TodoIdle

InitPoisson ==
    /\ pc = "simulate_day"
    /\ tape \in [1 .. TapeLen -> CellVals]
    /\ rng = random_seed(run_seed)
    /\ days = 1
    /\ runs = 1
    /\ si \in 1 .. Len(Strategies)
    /\ strategy = Strategies[si]
    /\ day = 0
    /\ sim_day = 1
    /\ wallet = WalletSimulator(default_bankroll)
    /\ num_trades = 0
    /\ trade_num = 0
    /\ trades_today = 0
    /\ wins = 0
    /\ losses = 0
    /\ max_concurrent_hit = FALSE
    /\ daily_loss_hit = FALSE
    /\ current_exposure = 0
    /\ result = None
    /\ all_results = << >>
    /\ prev_results = << >>
    /\ summary = << >>
    /\ avg_trades_per_day \in Lambdas
    /\ poisson_k = 0
    /\ trade = None
    /\ wallet_at_entry = None
    /\ OthersIdle

NextPoisson ==
    \/ RunDayEnter
    \/ RunDayTrade
    \/ DailyLossStop
    \/ PerWalletStop
    \/ ExposureStop
    \/ LoopExhausted
    \/ ReturnResult

SpecPoisson == InitPoisson /\ [][NextPoisson]_vars

(* ---------------------- simulate_specific_scenarios ------------------- *)
\* The scenarios: win_rate in percent, the result of a win (loss_mult) and
\* the size of a loss (loss_size).
scenarios ==
    << [name |-> "Terrible Day", win_rate |-> 20, loss_mult |-> 50,
        loss_size |-> 100],
       [name |-> "Bad Day", win_rate |-> 35, loss_mult |-> 35,
        loss_size |-> 75],
       [name |-> "Normal Bad Day", win_rate |-> 45, loss_mult |-> 25,
        loss_size |-> 50] >>

\* position_size by strategy name.
position_size(n) == Strategies[n].position_size_usd

\* for trade in range(10)
probe_trades == 10

\* random.seed(100)
probe_seed == 100

\* The scenario loop's test with the per-wallet threshold.
ProbeCapReached_per_wallet(dp) == dp <= -per_wallet_daily_cap

\* if daily_pnl <= -30.0
ProbeCapReached(dp) == dp <= -30

\* What the simulation variables hold while simulate_day is not running.
SimIdle ==
    /\ days = 1
    /\ runs = 1
    /\ si = 1
    /\ strategy = None
    /\ day = 0
    /\ sim_day = 0
    /\ wallet = None
    /\ num_trades = 0
    /\ trade_num = 0
    /\ trades_today = 0
    /\ wins = 0
    /\ losses = 0
    /\ max_concurrent_hit = FALSE
    /\ daily_loss_hit = FALSE
    /\ current_exposure = 0
    /\ result = None
    /\ all_results = << >>
    /\ prev_results = << >>
    /\ summary = << >>
    /\ avg_trades_per_day = 8
    /\ poisson_k = 0
    /\ trade = None
    /\ wallet_at_entry = None

simVars == << wallet, strategy, sim_day, result, runVars, dayLocals, callVars >>

\* for strategy_name in [...]: the next name, or the end of the function.
ProbeStrategy ==
    /\ pc = "probe_strategy"
    /\ IF name_idx < Len(Strategies)
       THEN /\ name_idx' = name_idx + 1
            /\ scenario_idx' = 0
            /\ pc' = "probe_scenario"
       ELSE /\ pc' = "probe_done"
            /\ UNCHANGED << name_idx, scenario_idx >>
    /\ UNCHANGED << tape, rng, probe_daily_pnl, trades_made, probe_trade,
                    simVars, todoVars >>

\* for ... in scenarios: the seed call and the locals of the scenario.
ProbeScenario ==
    /\ pc = "probe_scenario"
    /\ IF scenario_idx < Len(scenarios)
       THEN /\ scenario_idx' = scenario_idx + 1
            /\ rng' = random_seed(probe_seed)
            /\ probe_daily_pnl' = 0
            /\ trades_made' = 0
            /\ probe_trade' = 0
            /\ pc' = "probe_loop"
       ELSE /\ pc' = "probe_strategy"
            /\ UNCHANGED << scenario_idx, rng, probe_daily_pnl, trades_made,
                            probe_trade >>
    /\ UNCHANGED << tape, name_idx, simVars, todoVars >>

\* for trade in range(10): the cap test breaks.
ProbeBreak ==
    /\ pc = "probe_loop"
    /\ probe_trade < probe_trades
    /\ ProbeCapReached(probe_daily_pnl)
    /\ pc' = "probe_print"
    /\ UNCHANGED << tape, rng, probeVars, simVars, todoVars >>

\* The loop body: one draw decides win or loss, the result is scaled and
\* added.
ProbeTrade ==
    /\ pc = "probe_loop"
    /\ probe_trade < probe_trades
    /\ ~ProbeCapReached(probe_daily_pnl)
    /\ LET sc == scenarios[scenario_idx]
           pnl == IF 100 * UOfCell(tape[rng]) < UDen * sc.win_rate
                  THEN sc.loss_mult
                  ELSE -sc.loss_size
           sp == FMul(pnl, position_size(name_idx) \div base_position_size)
       IN  probe_daily_pnl' = FAdd(probe_daily_pnl, sp)
    /\ trades_made' = trades_made + 1
    /\ probe_trade' = probe_trade + 1
    /\ rng' = NextPos(rng)
    /\ UNCHANGED << pc, tape, scenario_idx, name_idx, simVars, todoVars >>

\* range(10) is used up.
ProbeExhausted ==
    /\ pc = "probe_loop"
    /\ probe_trade = probe_trades
    /\ pc' = "probe_print"
    /\ UNCHANGED << tape, rng, probeVars, simVars, todoVars >>

\* The scenario's line is printed and the next scenario follows.
ProbePrint ==
    /\ pc = "probe_print"
    /\ pc' = "probe_scenario"
    /\ UNCHANGED << tape, rng, probeVars, simVars, todoVars >>

InitProbe ==
    /\ pc = "probe_strategy"
    /\ tape \in [1 .. TapeLen -> CellVals]
    /\ rng = random_seed(run_seed)
    /\ SimIdle
    /\ ProbeIdle
    /\ TodoIdle

NextProbe ==
    \/ ProbeStrategy
    \/ ProbeScenario
    \/ ProbeBreak
    \/ ProbeTrade
    \/ ProbeExhausted
    \/ ProbePrint

SpecProbe == InitProbe /\ [][NextProbe]_vars

(* ------------------------------ todo_guard ---------------------------- *)
\* A line is what the two patterns read of it: whether a comment marker
\* (//, #, /*, <!--) opens it, the word that follows the marker, and the text
\* in parentheses right after the word ("" when there is none).
Lines ==
    { [marker |-> FALSE, word |-> "TODO", tag |-> ""],      \* s = "TODO"
      [marker |-> TRUE, word |-> "TODO", tag |-> ""],       \* // TODO: x
      [marker |-> TRUE, word |-> "FIXME", tag |-> "LIN-7"], \* # FIXME(LIN-7): x
      [marker |-> TRUE, word |-> "todo", tag |-> "#123"],   \* // todo(#123): x
      [marker |-> TRUE, word |-> "TODO", tag |-> "soon"] }  \* // TODO(soon): x

\* The words with their upper-case form, for re.IGNORECASE.
Upper(w) == IF w = "todo" THEN "TODO" ELSE IF w = "fixme" THEN "FIXME" ELSE w

\* Texts of the form #\d+, LIN-\d+ or Task[- ]\d+.
TrackingIds == {"#123", "LIN-7", "Task 38", "Task-38"}

\* _COMMENT_TODO_RE.search(line): case-sensitive.
COMMENT_TODO_RE(line) == line.marker /\ line.word \in {"TODO", "FIXME"}

\* The tracked pattern matching whenever the word is followed by
\* parentheses.
TRACKED_RE_any_tag(line) ==
    line.marker /\ Upper(line.word) \in {"TODO", "FIXME"} /\ line.tag # ""

\* _TRACKED_RE.search(line): compiled with re.IGNORECASE.
TRACKED_RE(line) ==
    /\ line.marker
    /\ Upper(line.word) \in {"TODO", "FIXME"}
    /\ line.tag \in TrackingIds

is_ignored_dir(name) ==
    name \in {".git", ".worktrees", "target", "archive", "__pycache__",
              ".venv", "node_modules"}

\* _default_roots(root), as paths below root.
default_roots ==
    << <<"crates">>, <<"scripts">>, <<"deploy">>, <<"hooks">>, <<".github">>,
       <<"config">> >>

\* os.path.splitext(path)[1].lower() of the modelled file names.
splitext(name) == IF name = "notes.md" THEN ".md" ELSE ".rs"

should_scan_file(path) ==
    splitext(path[Len(path)])
        \in {".rs", ".sh", ".py", ".toml", ".yml", ".yaml", ".json"}

IsPrefix(r, path) ==
    /\ Len(r) <= Len(path)
    /\ \A i \in 1 .. Len(r) : r[i] = path[i]

\* Whether _iter_files yields the file at path for root r: r is that file,
\* or r is a directory above it and os.walk(r) prunes none of the
\* directories between r and the file.
Yields(r, path) ==
    /\ IsPrefix(r, path)
    /\ \A i \in (Len(r) + 1) .. (Len(path) - 1) : ~is_ignored_dir(path[i])

\* _iter_files(roots): for each root in turn, the files it yields, in the
\* order the walk meets them (the order of files).
RECURSIVE iter_files(_, _)
iter_files(rs, files) ==
    IF rs = << >> THEN << >>
    ELSE SelectSeq(files, LAMBDA f : Yields(Head(rs), f.path))
            \o iter_files(Tail(rs), files)

TodoHit(f, i) == [path |-> f.path, line_no |-> i, text |-> f.lines[i]]

\* The hits of lines i .. of file f; tracked hits are left out when
\* only_untracked.
RECURSIVE scan_lines(_, _, _)
scan_lines(f, i, only_untracked) ==
    IF i > Len(f.lines) THEN << >>
    ELSE LET line == f.lines[i]
             keep == /\ COMMENT_TODO_RE(line)
                     /\ only_untracked => ~TRACKED_RE(line)
         IN  (IF keep THEN << TodoHit(f, i) >> ELSE << >>)
                \o scan_lines(f, i + 1, only_untracked)

\* _scan_file(path): (hits, untracked)
scan_file(f) ==
    IF ~should_scan_file(f.path)
    THEN [hits |-> << >>, untracked |-> << >>]
    ELSE [hits |-> scan_lines(f, 1, FALSE),
          untracked |-> scan_lines(f, 1, TRUE)]

RECURSIVE extend_all(_, _)
extend_all(files, only_untracked) ==
    IF files = << >> THEN << >>
    ELSE (IF only_untracked THEN scan_file(Head(files)).untracked
          ELSE scan_file(Head(files)).hits)
            \o extend_all(Tail(files), only_untracked)

\* scan_repo(root, roots), given saying that roots is not None; paths are
\* kept relative to root throughout.
scan_repo(given, rs, files) ==
    LET used == IF given THEN rs ELSE default_roots
        its == iter_files(used, files)
    IN  [all |-> extend_all(its, FALSE), untracked |-> extend_all(its, TRUE)]

\* main: res = scan_repo(root=os.getcwd(), roots=ns.paths or None)
TodoScan ==
    /\ pc = "todo_main"
    /\ scan' = scan_repo(roots # << >>, roots, fs)
    /\ pc' = "todo_scanned"
    /\ UNCHANGED << tape, rng, simVars, probeVars, fs, roots, cmd, exit_code >>

\* main's return value.
TodoExit ==
    /\ pc = "todo_scanned"
    /\ exit_code' = IF cmd = "list" THEN 0
                    ELSE IF cmd = "check"
                         THEN (IF scan.untracked # << >> THEN 1 ELSE 0)
                         ELSE 2
    /\ pc' = "todo_done"
    /\ UNCHANGED << tape, rng, simVars, probeVars, fs, roots, cmd, scan >>

\* The files of the working directory: two of these paths, in the order a
\* walk meets them, each with any content of 1 to MaxLines lines.
Paths ==
    << <<"crates", "lib.rs">>, <<"crates", "notes.md">>,
       <<"crates", "target", "gen.rs">>, <<"target", "junk.rs">> >>

Contents == UNION { [1 .. n -> Lines] : n \in 1 .. MaxLines }

\* The paths given on the command line (none: the default roots).
RootChoices ==
    { << >>, << <<"target">> >>, << <<"target", "junk.rs">>, <<"crates">> >> }

InitTodo ==
    /\ pc = "todo_main"
    /\ tape = << >>
    /\ rng = 0
    /\ SimIdle
    /\ ProbeIdle
    /\ \E i \in 1 .. Len(Paths), j \in 1 .. Len(Paths) :
       \E c1 \in Contents, c2 \in Contents :
          /\ i < j
          /\ fs = << [path |-> Paths[i], lines |-> c1],
                     [path |-> Paths[j], lines |-> c2] >>
    /\ roots \in RootChoices
    /\ cmd \in {"list", "check"}
    /\ scan = None
    /\ exit_code = None

NextTodo ==
    \/ TodoScan
    \/ TodoExit

SpecTodo == InitTodo /\ [][NextTodo]_vars

(* ======================= properties of simulate_day =================== *)
Returned == pc = "returned"

\* C1: for every simulated day, whatever the outcomes and the drawn trade
\* count N, the returned DailyResult has trades_taken <= N and
\* wins + losses = trades_taken (and the counters agree all along the loop).
C1_TradesWithinCount ==
    /\ pc \in {"loop", "return", "returned"} =>
          /\ trades_today <= num_trades
          /\ wins + losses = trades_today
    /\ Returned =>
          /\ result.trades_taken <= num_trades
          /\ result.wins + result.losses = result.trades_taken

\* A day stopped early that counted a zero result, wins and losses.
C1_Witness ==
    /\ Returned
    /\ result.trades_taken < num_trades
    /\ result.wins > 1
    /\ result.losses > 0
    /\ result.daily_pnl = wallet.daily_losses

\* C2: every strategy is capped at a $30 daily loss: at day end the day's
\* realized loss is no worse than -30, whatever the position size.
C2_DailyLossAtMostCap ==
    Returned => wallet.daily_losses >= -portfolio_daily_cap

\* C5: daily_loss_hit and max_concurrent_hit are never both true for a day.
C5_FlagsExclusive ==
    /\ ~(daily_loss_hit /\ max_concurrent_hit)
    /\ Returned => ~(result.daily_loss_hit /\ result.max_concurrent_hit)

\* A day stopped by the loss cap at a point where the exposure check would
\* have stopped it too.
C5_Witness ==
    /\ Returned
    /\ result.daily_loss_hit
    /\ ExposureCapReached(current_exposure, strategy)

\* C6: when daily_loss_hit is set, daily_losses was <= -30 at the check that
\* set it, and no trade runs after that check, so the tracker keeps that
\* value to the end of the day and the returned flag is the one set.
C6_LossHitAtCap ==
    /\ [](daily_loss_hit => wallet.daily_losses <= -30)
    /\ [](Returned => result.daily_loss_hit = daily_loss_hit)
    /\ [][daily_loss_hit =>
            /\ wallet' = wallet
            /\ trades_today' = trades_today]_vars

\* A day the loss cap stopped after two trades, the first a loss that left
\* the tracker between the two caps' reach.
C6_Witness ==
    /\ Returned
    /\ result.daily_loss_hit
    /\ result.trades_taken = 2
    /\ result.losses = 2
    /\ wallet.daily_losses <= -30

\* C7: when max_concurrent_hit is returned, the running exposure plus the
\* position size strictly exceeded 150 at the check, that is
\* (trades_taken + 1) * position_size_usd > 150.
C7_ExposureHitExceeds ==
    Returned /\ result.max_concurrent_hit =>
        /\ current_exposure = result.trades_taken * strategy.position_size_usd
        /\ current_exposure + strategy.position_size_usd > max_total_exposure
        /\ (result.trades_taken + 1) * strategy.position_size_usd > 150

\* The exposure cap stopping the $50 strategy at an exposure of exactly 150.
C7_Witness ==
    /\ Returned
    /\ result.max_concurrent_hit
    /\ strategy.position_size_usd = 50
    /\ current_exposure = max_total_exposure

(* ================== properties of the run and the analysis ============ *)
RunReturned == pc \in {"analyze", "done"}

NonDecreasing(c) == \A i \in 1 .. Len(c) - 1 : c[i] <= c[i + 1]

\* The reference drawdown: the largest drop from the running peak.
RunningPeakDrawdown(c) ==
    SeqMax([d \in 1 .. Len(c) |-> FSub(SeqMax(SubSeq(c, 1, d)), c[d])])

StrategyCumulative(n) == CumulativePnls(StrategyResults(all_results, n))

\* C3: the maximum drawdown analyze_results computes is never negative, and
\* is 0 if and only if cumulative_pnl is non-decreasing over the sequence.
C3_DrawdownZeroIffNonDecreasing ==
    pc = "done" =>
        \A n \in DOMAIN summary :
            /\ summary[n].max_drawdown >= 0
            /\ summary[n].max_drawdown = 0 <=> NonDecreasing(StrategyCumulative(n))

\* C4: the maximum drawdown analyze_results computes equals the running-peak
\* drawdown: the maximum over days d of max(cumulative_pnl[1..d]) minus
\* cumulative_pnl[d].
C4_DrawdownIsRunningPeak ==
    pc = "done" =>
        \A n \in DOMAIN summary :
            summary[n].max_drawdown = RunningPeakDrawdown(StrategyCumulative(n))

\* C8 as stated: day 1 has cumulative_pnl = daily_pnl, every later day has
\* cumulative_pnl[day] = cumulative_pnl[day-1] + daily_pnl[day], and every day
\* has bankroll = 1000.0 + cumulative_pnl.
C8_CumulativeRecurrence ==
    \A i \in 1 .. Len(all_results) :
        LET r == all_results[i]
        IN  /\ r.bankroll = FAdd(default_bankroll, r.cumulative_pnl)
            /\ r.day = 1 => r.cumulative_pnl = r.daily_pnl
            /\ r.day > 1 =>
                  r.cumulative_pnl =
                      FAdd(all_results[i - 1].cumulative_pnl, r.daily_pnl)

\* C8 as amended: the recurrence of the later days is exact on the days with
\* at most one executed trade; with more trades the total and the daily sum
\* are rounded separately, trade by trade, and may differ.
C8_CumulativeRecurrenceOneTrade ==
    \A i \in 1 .. Len(all_results) :
        LET r == all_results[i]
        IN  /\ r.bankroll = FAdd(default_bankroll, r.cumulative_pnl)
            /\ r.day = 1 => r.cumulative_pnl = r.daily_pnl
            /\ (r.day > 1 /\ r.trades_taken <= 1) =>
                  r.cumulative_pnl =
                      FAdd(all_results[i - 1].cumulative_pnl, r.daily_pnl)

\* A second day of one trade, after a first day that left a total.
C8_Witness ==
    \E i \in 2 .. Len(all_results) :
        /\ all_results[i].day > 1
        /\ all_results[i].trades_taken = 1
        /\ all_results[i].daily_pnl < 0
        /\ all_results[i - 1].cumulative_pnl > 0
        /\ all_results[i].strategy = all_results[i - 1].strategy

\* C9: run_simulation(days) returns exactly 3 * days records, the strategies
\* in list order as contiguous blocks, each block's days 1..days in order,
\* and each strategy starts from a fresh wallet: nothing of an earlier
\* strategy is in a later strategy's cumulative_pnl.
C9_BlocksInOrderFreshWallet ==
    RunReturned =>
        /\ Len(all_results) = Len(Strategies) * days
        /\ \A i \in 1 .. Len(all_results) :
              /\ all_results[i].strategy = Strategies[((i - 1) \div days) + 1].name
              /\ all_results[i].day = ((i - 1) % days) + 1
              /\ all_results[i].day = 1 =>
                    /\ all_results[i].cumulative_pnl = all_results[i].daily_pnl
                    /\ all_results[i].bankroll =
                           FAdd(default_bankroll, all_results[i].daily_pnl)

\* A finished run of several days whose first strategy ended with a total
\* that a shared wallet would have carried on.
C9_Witness ==
    /\ pc = "done"
    /\ days > 1
    /\ Len(all_results) = Len(Strategies) * days
    /\ all_results[days].cumulative_pnl # 0
    /\ all_results[days + 1].daily_pnl # 0

\* C10: run_simulation run twice with the same seed and parameters returns
\* identical sequences of DailyResult, whatever the earlier run left behind.
C10_SecondRunIdentical ==
    (RunReturned /\ runs > 1) => all_results = prev_results

\* A second run that started with the generator away from its seeded state.
C10_Witness ==
    /\ pc = "done"
    /\ runs = 2
    /\ prev_results # << >>
    /\ rng # random_seed(run_seed)
    /\ \E i \in 1 .. Len(all_results) : all_results[i].losses > 0

\* A step of the loop body that executed a trade (line 135).
TradeExecuted == trades_today' = trades_today + 1

\* C11: for every executed trade the amount added to the wallet's daily_pnl
\* and total_pnl is the generator's unscaled outcome times
\* position_size_usd / 25.0; for the same outcome the contribution at $50 is
\* exactly twice the contribution at $25.
C11_ScaledBySizeOver25 ==
    /\ [][TradeExecuted =>
            /\ trade'.scaled_pnl * base_position_size
                  = trade'.pnl * strategy.position_size_usd
            /\ wallet'.daily_pnl = FAdd(wallet.daily_pnl, trade'.scaled_pnl)
            /\ wallet'.total_pnl = FAdd(wallet.total_pnl, trade'.scaled_pnl)]_vars
    /\ [](\A o \in Outcomes :
            scaled_pnl(o.pnl, Strategies[2])
                = 2 * scaled_pnl(o.pnl, Strategies[1]))

C11_Witness ==
    /\ pc = "loop"
    /\ trade # None
    /\ strategy.position_size_usd = 2 * base_position_size
    /\ trade.pnl < 0
    /\ trade.scaled_pnl = 2 * trade.pnl
    /\ wallet.daily_pnl = trade.scaled_pnl

\* hit_rate = num / den is 0 when no trade was taken, wins / trades_taken
\* otherwise, with a denominator that is never 0.
HitRateOf(r) ==
    /\ r.hit_rate.den # 0
    /\ r.trades_taken = 0 => r.hit_rate.num = 0
    /\ r.trades_taken > 0 =>
          r.hit_rate.num * r.trades_taken = r.wins * r.hit_rate.den
    /\ 0 <= r.hit_rate.num
    /\ r.hit_rate.num <= r.hit_rate.den

\* C12: in every DailyResult hit_rate is 0 when trades_taken is 0 and
\* wins / trades_taken otherwise, it lies in [0, 1] (0 <= wins <=
\* trades_taken), and the computation never divides by zero. The record of a
\* day without a trade is built from the counters as line 146 builds it.
C12_HitRateGuarded ==
    /\ Returned =>
          /\ HitRateOf(result)
          /\ 0 <= result.wins
          /\ result.wins <= result.trades_taken
    /\ pc = "return" =>
          \A t \in {0, trades_today} : \A w \in 0 .. t :
              HitRateOf(DailyResult(wallet, strategy, sim_day, t, w, t - w,
                                    max_concurrent_hit, daily_loss_hit))

C12_Witness ==
    /\ Returned
    /\ result.wins >= 1
    /\ result.losses >= 1
    /\ result.hit_rate = [num |-> result.wins, den |-> result.trades_taken]

\* C13: for each built-in strategy, in whatever state earlier days left the
\* wallet, simulate_day executes at least one trade: 1 <= trades_taken <= N.
C13_AtLeastOneTrade ==
    Returned =>
        /\ strategy \in {Strategies[i] : i \in 1 .. Len(Strategies)}
        /\ 1 <= result.trades_taken
        /\ result.trades_taken <= num_trades

C13_Witness ==
    /\ Returned
    /\ wallet_at_entry.daily_losses <= -portfolio_daily_cap
    /\ strategy.position_size_usd = 100
    /\ num_trades >= 2
    /\ result.trades_taken = 1

\* C14: poisson_random returns a non-negative integer for every mean arrival
\* rate it is given, and the number of trade attempts of a day is at least 1.
C14_PoissonNonNegative ==
    pc \in {"loop", "return", "returned"} =>
        /\ poisson_k >= 0
        /\ num_trades >= 1

\* C16: if after an executed trade the daily realized loss is <= -30.0 and
\* fewer than N trades have been attempted, the very next check stops the day
\* with daily_loss_hit = true and no further trade is executed that day; a
\* trade is executed only if, immediately before it, daily_losses > -20.0 and
\* running exposure + position_size_usd <= 150.0.
C16_CapChecksPrecedeTrades ==
    /\ [][(/\ pc = "loop"
           /\ trade # None
           /\ trade_num < num_trades
           /\ wallet.daily_losses <= -portfolio_daily_cap)
          => (/\ pc' = "return"
              /\ daily_loss_hit'
              /\ trades_today' = trades_today
              /\ wallet' = wallet)]_vars
    /\ [][(pc = "return" \/ pc = "returned") =>
            (trades_today' = trades_today)]_vars
    /\ [][TradeExecuted =>
            /\ wallet.daily_losses > -per_wallet_daily_cap
            /\ current_exposure + strategy.position_size_usd
                  <= max_total_exposure]_vars

C16_Witness ==
    /\ Returned
    /\ result.daily_loss_hit
    /\ trade # None
    /\ result.trades_taken >= 2
    /\ result.trades_taken < num_trades
    /\ wallet.daily_losses <= -portfolio_daily_cap

\* C17: a day stopped by the per-wallet cap check (daily realized loss of
\* absolute value >= 20.0 while still > -30.0) stops silently: the returned
\* DailyResult has daily_loss_hit and max_concurrent_hit false although fewer
\* than N trades were executed.
C17_PerWalletStopSilent ==
    /\ [][(/\ pc = "loop"
           /\ trade_num < num_trades
           /\ Abs(wallet.daily_losses) >= per_wallet_daily_cap
           /\ wallet.daily_losses > -portfolio_daily_cap)
          => (/\ pc' = "return"
              /\ ~daily_loss_hit'
              /\ ~max_concurrent_hit'
              /\ trades_today' = trades_today)]_vars
    /\ [](( /\ Returned
            /\ result.trades_taken < num_trades
            /\ Abs(wallet.daily_losses) >= per_wallet_daily_cap
            /\ wallet.daily_losses > -portfolio_daily_cap)
          => (~result.daily_loss_hit /\ ~result.max_concurrent_hit))

C17_Witness ==
    /\ Returned
    /\ result.trades_taken < num_trades
    /\ wallet.daily_losses = -per_wallet_daily_cap
    /\ strategy.position_size_usd = 50
    /\ result.trades_taken = 3
    /\ ~result.daily_loss_hit
    /\ ~result.max_concurrent_hit

\* The reset is the first step of simulate_day and touches the two daily
\* counters only.
ResetFirst ==
    pc = "simulate_day" =>
        /\ wallet'.daily_pnl = 0
        /\ wallet'.daily_losses = 0
        /\ wallet'.total_pnl = wallet.total_pnl
        /\ wallet'.initial_bankroll = wallet.initial_bankroll
        /\ trades_today' = 0

\* The day's counters are built from zero: after the first trade they hold
\* that trade's scaled result and nothing of the day before.
CountersFromZero ==
    (pc = "loop" /\ trades_today = 1) =>
        /\ wallet.daily_pnl = trade.scaled_pnl
        /\ wallet.daily_losses = Min2(trade.scaled_pnl, 0)
        /\ wallet.total_pnl = FAdd(wallet_at_entry.total_pnl, trade.scaled_pnl)
        /\ wallet.initial_bankroll = wallet_at_entry.initial_bankroll

\* C18: simulate_day resets daily_pnl and daily_losses to zero as its first
\* action and leaves total_pnl and initial_bankroll untouched; the day's
\* DailyResult does not depend on the daily counters of the previous day, and
\* total_pnl after the day equals total_pnl before the day plus that day's
\* daily_pnl.
C18_ResetAndTotalRecurrence ==
    /\ [][ResetFirst]_vars
    /\ []CountersFromZero
    /\ [](Returned =>
            result.cumulative_pnl
                = FAdd(wallet_at_entry.total_pnl, result.daily_pnl))

\* C18 as amended: the reset and the independence as stated; total_pnl grows
\* by each trade's scaled result, which makes it total_pnl before the day
\* plus daily_pnl exactly when one trade was executed.
C18_ResetAndTotalPerTrade ==
    /\ [][ResetFirst]_vars
    /\ []CountersFromZero
    /\ [][TradeExecuted =>
            /\ wallet'.total_pnl = FAdd(wallet.total_pnl, trade'.scaled_pnl)
            /\ wallet'.daily_pnl = FAdd(wallet.daily_pnl, trade'.scaled_pnl)
            /\ wallet'.initial_bankroll = wallet.initial_bankroll]_vars
    /\ []((Returned /\ result.trades_taken <= 1) =>
            result.cumulative_pnl
                = FAdd(wallet_at_entry.total_pnl, result.daily_pnl))

C18_Witness ==
    /\ Returned
    /\ wallet_at_entry.daily_pnl # 0
    /\ wallet_at_entry.daily_losses # 0
    /\ wallet_at_entry.total_pnl # 0
    /\ result.trades_taken = 1
    /\ result.daily_pnl # 0
    /\ result.cumulative_pnl
          = FAdd(wallet_at_entry.total_pnl, result.daily_pnl)

\* C19: for every executed trade the loss counter is incremented and
\* daily_losses decreased exactly when the scaled result is strictly
\* negative, and the win counter is incremented otherwise, whatever flag the
\* outcome generator returned; at every point of a day daily_losses <= 0 and
\* daily_losses <= daily_pnl, daily_losses being the running sum of the
\* negative scaled results.
C19_LossesAreNegativeResults ==
    /\ [][TradeExecuted =>
            IF trade'.scaled_pnl < 0
            THEN /\ losses' = losses + 1
                 /\ wins' = wins
                 /\ wallet'.daily_losses
                       = FAdd(wallet.daily_losses, trade'.scaled_pnl)
                 /\ wallet'.daily_losses < wallet.daily_losses
            ELSE /\ wins' = wins + 1
                 /\ losses' = losses
                 /\ wallet'.daily_losses = wallet.daily_losses]_vars
    /\ [](pc # "simulate_day" =>
            /\ wallet.daily_losses <= 0
            /\ wallet.daily_losses <= wallet.daily_pnl)
    /\ []((pc = "loop" /\ trades_today = 0) => wallet.daily_losses = 0)

C19_Witness ==
    /\ pc = "loop"
    /\ trades_today = 2
    /\ trade # None
    /\ ~trade.is_win
    /\ trade.scaled_pnl = 0
    /\ wins = 1
    /\ losses = 1
    /\ wallet.daily_losses < 0
    /\ wallet.daily_losses = wallet.daily_pnl

\* Values of max_concurrent_positions a StrategyConfig may carry.
ConcurrentVals == {0, 1, 10}

\* What simulate_day reads of the strategy in the current state is the same
\* whatever max_concurrent_positions is.
ConcurrentUnread ==
    \A m \in ConcurrentVals :
        LET s2 == [strategy EXCEPT !.max_concurrent_positions = m]
        IN  /\ ExposureCapReached(current_exposure, s2)
                  = ExposureCapReached(current_exposure, strategy)
            /\ trade # None =>
                  scaled_pnl(trade.pnl, s2) = scaled_pnl(trade.pnl, strategy)
            /\ pc = "return" =>
                  DailyResult(wallet, s2, sim_day, trades_today, wins, losses,
                              max_concurrent_hit, daily_loss_hit)
                    = DailyResult(wallet, strategy, sim_day, trades_today,
                                  wins, losses, max_concurrent_hit,
                                  daily_loss_hit)

C20_ProbeStopsAtCap ==
    /\ [](trades_made <= 10)
    /\ [][(trades_made' = trades_made + 1) => (probe_daily_pnl > -30)]_vars
    /\ []((pc = "probe_print" /\ trades_made < 10) => probe_daily_pnl <= -30)
    /\ []((pc = "probe_print" /\ trades_made = 10) => probe_trade = 10)

C20_Witness ==
    /\ pc = "probe_print"
    /\ position_size(name_idx) = 50
    /\ scenarios[scenario_idx].name = "Bad Day"
    /\ trades_made >= 3
    /\ trades_made < 10
    /\ probe_daily_pnl <= -30

C20_WitnessFull ==
    /\ pc = "probe_print"
    /\ trades_made = 10
    /\ probe_daily_pnl > -30

(* ========================= properties of todo_guard =================== *)
Scanned == pc \in {"todo_scanned", "todo_done"}

InSeq(h, sq) == \E k \in 1 .. Len(sq) : sq[k] = h

\* A line carries a tracking ID when the text in parentheses after TODO or
\* FIXME is of the form #123, LIN-123, Task 38 or Task-38.
CarriesTrackingId(line) == line.tag \in TrackingIds

UnderIgnoredDir(path) ==
    \E i \in 1 .. (Len(path) - 1) : is_ignored_dir(path[i])

\* A hit is in untracked exactly when it is in all and carries no tracking
\* ID; untracked is the sub-list of all of the hits without one, and every
\* hit is a TODO or FIXME comment line of a file.
UntrackedAreHitsWithoutId ==
    /\ \A k \in 1 .. Len(fs) : \A i \in 1 .. Len(fs[k].lines) :
          LET h == TodoHit(fs[k], i)
          IN  InSeq(h, scan.untracked)
                <=> (InSeq(h, scan.all) /\ ~CarriesTrackingId(h.text))
    /\ scan.untracked
          = SelectSeq(scan.all, LAMBDA h : ~CarriesTrackingId(h.text))
    /\ \A k \in 1 .. Len(scan.all) :
          /\ scan.all[k].text.marker
          /\ scan.all[k].text.word \in {"TODO", "FIXME"}
          /\ \E f \in 1 .. Len(fs) :
                /\ fs[f].path = scan.all[k].path
                /\ scan.all[k].line_no \in 1 .. Len(fs[f].lines)
                /\ fs[f].lines[scan.all[k].line_no] = scan.all[k].text

\* With the default roots, the TODO and FIXME comment lines of a .rs file
\* directly in crates are all reported.
DefaultRootsReport ==
    roots = << >> =>
        \A k \in 1 .. Len(fs) : \A i \in 1 .. Len(fs[k].lines) :
            (/\ fs[k].path = <<"crates", "lib.rs">>
             /\ fs[k].lines[i].marker
             /\ fs[k].lines[i].word \in {"TODO", "FIXME"})
            => InSeq(TodoHit(fs[k], i), scan.all)

CheckExitCode ==
    (pc = "todo_done" /\ cmd = "check") =>
        (exit_code = 1 <=> scan.untracked # << >>)

\* C15: a TODO/FIXME comment line of a scanned file is in untracked exactly
\* when it is in all and carries no tracking ID, no file under an ignored
\* directory such as target contributes to either list, and check returns 1
\* exactly when untracked is non-empty.
C15_TodoGuardContract ==
    Scanned =>
        /\ UntrackedAreHitsWithoutId
        /\ DefaultRootsReport
        /\ \A k \in 1 .. Len(scan.all) : ~UnderIgnoredDir(scan.all[k].path)
        /\ CheckExitCode

\* C15 as amended: the ignored directories are those met below a root; a
\* root is scanned as given.
C15_TodoGuardContractBelowRoots ==
    Scanned =>
        /\ UntrackedAreHitsWithoutId
        /\ DefaultRootsReport
        /\ \A k \in 1 .. Len(scan.all) :
              LET path == scan.all[k].path
                  used == IF roots # << >> THEN roots ELSE default_roots
              IN  /\ roots = << >> => ~UnderIgnoredDir(path)
                  /\ \E r \in 1 .. Len(used) :
                        /\ SubSeq(path, 1, Len(used[r])) = used[r]
                        /\ \A i \in (Len(used[r]) + 1) .. (Len(path) - 1) :
                              ~is_ignored_dir(path[i])
        /\ CheckExitCode

C15_Witness ==
    /\ pc = "todo_done"
    /\ cmd = "check"
    /\ roots = << <<"target", "junk.rs">>, <<"crates">> >>
    /\ fs[1].path = <<"crates", "lib.rs">>
    /\ fs[2].path = <<"crates", "target", "gen.rs">>
    /\ Len(fs[2].lines) = 2
    /\ \A i \in 1 .. 2 : fs[2].lines[i].marker /\ fs[2].lines[i].tag = ""
    /\ Len(scan.all) = 2
    /\ Len(scan.untracked) = 1
    /\ scan.untracked[1].path = <<"crates", "lib.rs">>
    /\ scan.untracked[1].line_no = 2
    /\ exit_code = 1

====
